---- MODULE Spec2Model ----
(***************************************************************************)
(* State-machine model of AiDemo/server.js: the schema cache and           *)
(* discoverSchema, the query resolver processQuery with its fallback       *)
(* ladder, generateFallbackQueries, and the /ask and /schema handlers.     *)
(* Every await of the source is a step boundary: the code between two      *)
(* awaits is one atomic action, and requests interleave at the awaits.     *)
(***************************************************************************)
EXTENDS Integers, Sequences, FiniteSets, TLC

VARIABLES
    schemaCache,      \* server.js:21  the cached snapshot, or Null
    schemaCacheTime,  \* server.js:22  Date.now() of the discovery that filled it
    clock,            \* the value Date.now() returns
    ticks,            \* how many times the clock has advanced (bounded)
    req               \* per request: the position and locals of its handler

vars == <<schemaCache, schemaCacheTime, clock, ticks, req>>

\* ------------------------------------------------------------------ bounds
MaxTicks == 2         \* clock advances per behaviour
MaxRows == 1          \* most rows a listing query returns
MaxFormatRows == 12   \* most rows of a result given to formatResult alone

\* --------------------------------------------------------------- constants
CACHE_DURATION == 300000

Requests == {1, 2}

\* The clock advances in steps of half the cache lifetime, so that a call can
\* find the cache half a lifetime old (fresh) or exactly one lifetime old.
TickLength == CACHE_DURATION \div 2

Null == [null |-> TRUE]
Raise == [raise |-> TRUE]

\* ----------------------------------------------------------------- strings
\* A question is a sequence of one-character strings, so that toLowerCase and
\* String.prototype.includes are computed rather than assumed.
UpperToLower ==
    [A |-> "a", B |-> "b", C |-> "c", D |-> "d", E |-> "e", F |-> "f", G |-> "g",
     H |-> "h", I |-> "i", J |-> "j", K |-> "k", L |-> "l", M |-> "m", N |-> "n",
     O |-> "o", P |-> "p", Q |-> "q", R |-> "r", S |-> "s", T |-> "t", U |-> "u",
     V |-> "v", W |-> "w", X |-> "x", Y |-> "y", Z |-> "z"]

lowerChar(c) == IF c \in DOMAIN UpperToLower THEN UpperToLower[c] ELSE c

RECURSIVE toLowerCase(_)
toLowerCase(s) ==
    IF s = <<>> THEN <<>> ELSE <<lowerChar(Head(s))>> \o toLowerCase(Tail(s))

includes(s, sub) ==
    \E i \in 1..(Len(s) - Len(sub) + 1) : \A j \in 1..Len(sub) : s[i + j - 1] = sub[j]

RECURSIVE join(_, _)
join(strs, sep) ==
    IF strs = <<>> THEN ""
    ELSE IF Len(strs) = 1 THEN strs[1]
    ELSE strs[1] \o sep \o join(Tail(strs), sep)

\* Questions a client sends (req.body.question); NoQuestion is a body without one.
NoQuestion == <<>>
QHowManyDoors == <<"H","o","w"," ","m","a","n","y"," ","d","o","o","r","s","?">>
QListDoors == <<"L","i","s","t"," ","a","l","l"," ","d","o","o","r","s",
                " ","w","i","t","h"," ","n","a","m","e","s">>
QHello == <<"h","e","l","l","o">>
Questions == {QHowManyDoors, QListDoors, QHello}

\* ------------------------------------------------- generateFallbackQueries
kwHowMany == <<"h","o","w"," ","m","a","n","y">>
kwCount == <<"c","o","u","n","t">>
kwList == <<"l","i","s","t">>
kwShow == <<"s","h","o","w">>
kwWhat == <<"w","h","a","t">>

concepts ==
    << [keywords |-> << <<"w","a","l","l">>, <<"w","a","l","l","s">> >>,
        labels |-> <<"Wall">>],
       [keywords |-> << <<"d","o","o","r">>, <<"d","o","o","r","s">> >>,
        labels |-> <<"Door">>],
       [keywords |-> << <<"w","i","n","d","o","w">>, <<"w","i","n","d","o","w","s">> >>,
        labels |-> <<"Window">>],
       [keywords |-> << <<"s","l","a","b">>, <<"s","l","a","b","s">>,
                        <<"f","l","o","o","r">>, <<"f","l","o","o","r","s">> >>,
        labels |-> <<"Slab", "Storey">>],
       [keywords |-> << <<"c","o","l","u","m","n">>, <<"c","o","l","u","m","n","s">> >>,
        labels |-> <<"Column">>],
       [keywords |-> << <<"b","e","a","m">>, <<"b","e","a","m","s">> >>,
        labels |-> <<"Beam">>],
       [keywords |-> << <<"s","p","a","c","e">>, <<"s","p","a","c","e","s">>,
                        <<"r","o","o","m">>, <<"r","o","o","m","s">> >>,
        labels |-> <<"Space">>],
       [keywords |-> << <<"b","u","i","l","d","i","n","g">>,
                        <<"b","u","i","l","d","i","n","g","s">> >>,
        labels |-> <<"Building">>],
       [keywords |-> << <<"p","i","p","e">>, <<"p","i","p","e","s">> >>,
        labels |-> <<"Pipe">>] >>

\* concept.labels[0].toLowerCase() on the nine label fragments
labelLower ==
    [Wall |-> "wall", Door |-> "door", Window |-> "window", Slab |-> "slab",
     Storey |-> "storey", Column |-> "column", Beam |-> "beam", Space |-> "space",
     Building |-> "building", Pipe |-> "pipe"]

countIntent(lowerQuestion) ==
    includes(lowerQuestion, kwHowMany) \/ includes(lowerQuestion, kwCount)

listIntent(lowerQuestion) ==
    \/ includes(lowerQuestion, kwList)
    \/ includes(lowerQuestion, kwShow)
    \/ includes(lowerQuestion, kwWhat)

labelCondition(concept) ==
    join([i \in 1..Len(concept.labels) |->
             "label CONTAINS '" \o concept.labels[i] \o "'"], " OR ")

flexCountCypher(concept) ==
    "MATCH (n) WHERE any(label IN labels(n) WHERE " \o labelCondition(concept)
        \o ") RETURN count(n) AS count"

flexListCypher(concept) ==
    "MATCH (n) WHERE any(label IN labels(n) WHERE " \o labelCondition(concept)
        \o ") RETURN coalesce(n.Name, n.ObjectType, n.LongName, 'Unnamed') AS name, "
        \o "coalesce(n.GlobalId, n.globalId, '') AS globalId, n.nid AS nid LIMIT 20"

\* The source quotes the label with backquotes, which a TLA+ string cannot hold;
\* the two exact-label texts are written without them.
exactCountCypher(exactLabel) ==
    "MATCH (n:" \o exactLabel \o ") RETURN count(n) AS count"

exactListCypher(exactLabel) ==
    "MATCH (n:" \o exactLabel \o ") RETURN coalesce(n.Name, n.ObjectType, 'Unnamed') "
        \o "AS name, coalesce(n.GlobalId, n.globalId, '') AS globalId LIMIT 10"

countAllCypher ==
    "MATCH (n) WHERE any(label IN labels(n) WHERE label STARTS WITH 'Ifc') "
        \o "RETURN count(n) AS count"

showLabelsCypher ==
    "MATCH (n) RETURN DISTINCT labels(n) AS node_types, count(n) AS count "
        \o "ORDER BY count DESC LIMIT 10"

ultimateCypher == "MATCH (n) RETURN count(n) AS total_count"

\* schema.labels[exactLabel] is truthy: the snapshot has an entry under that name
hasLabel(schema, name) ==
    \E i \in 1..Len(schema.labels) : schema.labels[i].label = name

\* Strategy 1 (lines 289-304): the flexible substring-label candidate
flexibleCandidates(concept, lowerQuestion) ==
    IF countIntent(lowerQuestion)
    THEN << [strategy |-> "count_" \o labelLower[concept.labels[1]],
             cypher |-> flexCountCypher(concept)] >>
    ELSE IF listIntent(lowerQuestion)
    THEN << [strategy |-> "list_" \o labelLower[concept.labels[1]],
             cypher |-> flexListCypher(concept)] >>
    ELSE <<>>

\* Strategy 2 (lines 306-322): one exact-label candidate per existing Ifc label
RECURSIVE exactCandidates(_, _, _)
exactCandidates(labels, lowerQuestion, schema) ==
    IF labels = <<>> THEN <<>>
    ELSE LET exactLabel == "Ifc" \o Head(labels)
             rest == exactCandidates(Tail(labels), lowerQuestion, schema)
         IN  IF hasLabel(schema, exactLabel)
             THEN IF countIntent(lowerQuestion)
                  THEN << [strategy |-> "exact_count_" \o exactLabel,
                           cypher |-> exactCountCypher(exactLabel)] >> \o rest
                  ELSE << [strategy |-> "exact_list_" \o exactLabel,
                           cypher |-> exactListCypher(exactLabel)] >> \o rest
             ELSE rest

conceptMatches(concept, lowerQuestion) ==
    \E k \in 1..Len(concept.keywords) : includes(lowerQuestion, concept.keywords[k])

\* (faulty variant: the break of line 323 is left out, every matching concept
\* adds its candidates)
RECURSIVE conceptLoopNoBreak(_, _, _)
conceptLoopNoBreak(c, lowerQuestion, schema) ==
    IF c > Len(concepts) THEN <<>>
    ELSE IF conceptMatches(concepts[c], lowerQuestion)
         THEN flexibleCandidates(concepts[c], lowerQuestion)
                \o exactCandidates(concepts[c].labels, lowerQuestion, schema)
                \o conceptLoopNoBreak(c + 1, lowerQuestion, schema)
         ELSE conceptLoopNoBreak(c + 1, lowerQuestion, schema)

\* The concept loop (lines 287-325) from concept c on: the candidates of the
\* first concept that matches, and no other (the break of line 323)
RECURSIVE conceptLoop(_, _, _)
conceptLoop(c, lowerQuestion, schema) ==
    IF c > Len(concepts) THEN <<>>
    ELSE IF conceptMatches(concepts[c], lowerQuestion)
         THEN flexibleCandidates(concepts[c], lowerQuestion)
                \o exactCandidates(concepts[c].labels, lowerQuestion, schema)
         ELSE conceptLoop(c + 1, lowerQuestion, schema)

conceptCandidates(lowerQuestion, schema) == conceptLoop(1, lowerQuestion, schema)

\* General fallbacks (lines 327-340)
genericCandidates(lowerQuestion) ==
    (IF countIntent(lowerQuestion)
     THEN << [strategy |-> "count_all_elements", cypher |-> countAllCypher] >>
     ELSE <<>>)
    \o
    (IF listIntent(lowerQuestion)
     THEN << [strategy |-> "show_labels", cypher |-> showLabelsCypher] >>
     ELSE <<>>)

generateFallbackQueries(question, schema) ==
    LET lowerQuestion == toLowerCase(question)
    IN  conceptCandidates(lowerQuestion, schema) \o genericCandidates(lowerQuestion)

\* ------------------------------------------------------------ the database
\* What the three discovery queries can answer.  A label listing is ordered by
\* count descending and may list a label that has no nodes.
LabelResults ==
    { << [label |-> "IfcDoor", count |-> 2] >>,
      << [label |-> "IfcWall", count |-> 3], [label |-> "IfcDoor", count |-> 0] >> }

RelResults ==
    { << [relationshipType |-> "CONTAINS", count |-> 2],
         [relationshipType |-> "FILLS", count |-> 0] >> }

Min(a, b) == IF a < b THEN a ELSE b

\* The sampling query (lines 55-61): WITH n LIMIT 3, one row per sampled node
propRecords(label, count) ==
    [i \in 1..Min(count, 3) |->
        [props |-> IF i = 1 THEN {"nid", "Name"} ELSE {"nid", "GlobalId"},
         nid |-> i,
         name |-> IF i = 1 THEN label ELSE "",
         globalId |-> IF i = 1 THEN "" ELSE label]]

\* ---------------------------------------------------------- discoverSchema
\* The snapshot of the catch block (lines 113-120)
FallbackSchema ==
    [labels |->
        << [label |-> "IfcWall", count |-> 0,
            properties |-> {"nid", "Name", "GlobalId"}, samples |-> <<>>],
           [label |-> "IfcDoor", count |-> 0,
            properties |-> {"nid", "Name", "GlobalId"}, samples |-> <<>>],
           [label |-> "IfcWindow", count |-> 0,
            properties |-> {"nid", "Name", "GlobalId"}, samples |-> <<>>] >>,
     relationships |-> <<>>]

\* line 28: schemaCache && (now - schemaCacheTime) < CACHE_DURATION
\* (faulty variant: <= in place of <)
cacheFreshOffByOne(now) ==
    schemaCache # Null /\ (now - schemaCacheTime) <= CACHE_DURATION

cacheFresh(now) ==
    schemaCache # Null /\ (now - schemaCacheTime) < CACHE_DURATION

\* lines 53 and 101: if (count > 0)
keepCount(count) == count > 0

\* The label loop (lines 49-82) from record `from` on: the next record whose
\* count passes the test and so gets a sampling query, or 0 when none is left.
nextSampled(records, from) ==
    LET S == {i \in from..Len(records) : keepCount(records[i].count)}
    IN  IF S = {} THEN 0 ELSE CHOOSE i \in S : \A j \in S : i <= j

\* lines 63-80: the entry stored under one label
labelInfo(record, propRecs) ==
    [label |-> record.label,
     count |-> record.count,
     properties |-> UNION {propRecs[i].props : i \in 1..Len(propRecs)},
     samples |-> [i \in 1..Min(Len(propRecs), 2) |->
                     [nid |-> propRecs[i].nid, name |-> propRecs[i].name,
                      globalId |-> propRecs[i].globalId]]]

\* lines 97-104: the relationship types with count > 0, in result order
RECURSIVE relationshipsOf(_)
relationshipsOf(records) ==
    IF records = <<>> THEN <<>>
    ELSE IF keepCount(Head(records).count)
         THEN << [type |-> Head(records).relationshipType,
                  count |-> Head(records).count] >> \o relationshipsOf(Tail(records))
         ELSE relationshipsOf(Tail(records))

\* A request before it arrives.  The fields are the locals of the handler and
\* of the two async functions it awaits; dHit, dFailed, dQueried, dOpened,
\* qOpened, retry, tFailed and executed record what has happened, for the
\* properties.
\* A local is reset when the function that owns it returns.
InitReq ==
    [pc |-> "idle", kind |-> "none", question |-> NoQuestion,
     now |-> 0, records |-> <<>>, li |-> 0, labels |-> <<>>, dRet |-> Null,
     dHit |-> FALSE, dFailed |-> FALSE, retry |-> FALSE,
     dQueried |-> FALSE, dOpened |-> 0, dOpen |-> FALSE,
     schema |-> Null, cypher |-> "", result |-> Null, attempts |-> <<>>,
     fallbacks |-> <<>>, fi |-> 0, executed |-> <<>>, ret |-> Null,
     err |-> "none", tFailed |-> FALSE, qOpened |-> 0, qOpen |-> FALSE,
     status |-> 0, body |-> Null]

Init ==
    /\ schemaCache = Null
    /\ schemaCacheTime = 0
    /\ clock = CACHE_DURATION
    /\ ticks = 0
    /\ req = [r \in Requests |-> InitReq]

\* Date.now() moves on between two steps of the server.  The clock is read
\* only at the entry of discoverSchema (line 27), so its advance is followed
\* while a request is still to arrive.
Tick ==
    /\ ticks < MaxTicks
    /\ \E r \in Requests : req[r].pc = "idle"
    /\ clock' = clock + TickLength
    /\ ticks' = ticks + 1
    /\ UNCHANGED <<schemaCache, schemaCacheTime, req>>

\* lines 27-32: the entry of discoverSchema, up to its first await or its
\* return on a cache hit.
discoverEnter(rec) ==
    IF cacheFresh(clock)
    THEN [rec EXCEPT !.dHit = TRUE, !.dRet = schemaCache, !.pc = "d_returned"]
    ELSE [rec EXCEPT !.now = clock, !.dOpened = @ + 1, !.dOpen = TRUE,
                     !.retry = \E s \in Requests : req[s].dFailed /\ ~req[s].dOpen,
                     !.pc = "d_labels"]

\* lines 110-120: the catch block returns the hardcoded snapshot; the finally
\* block then awaits session.close().
\* (faulty variant: the labels built so far are returned)
discoverCatchPartial(rec) ==
    [rec EXCEPT !.dFailed = TRUE,
                !.dRet = [labels |-> rec.labels, relationships |-> <<>>],
                !.pc = "d_close"]

discoverCatch(rec) ==
    [rec EXCEPT !.dFailed = TRUE, !.dRet = FallbackSchema, !.pc = "d_close"]

\* The cache after the catch block (lines 110-120), which assigns neither
\* schemaCache nor schemaCacheTime.
\* (faulty variant: the hardcoded snapshot is stored)
cacheAfterCatchStoring(rec) == <<FallbackSchema, rec.now>>

cacheAfterCatch(rec) == <<schemaCache, schemaCacheTime>>

\* lines 49-95: run the label loop from record `from` to its next await:
\* the sampling query of the next kept label, or the relationship query.
discoverLoop(rec, from) ==
    LET i == nextSampled(rec.records, from)
    IN  IF i # 0 THEN [rec EXCEPT !.li = i, !.pc = "d_sample"]
        ELSE [rec EXCEPT !.li = 0, !.pc = "d_rels"]

\* GET /schema (lines 489-491) up to the first await inside discoverSchema
GetSchema(r) ==
    /\ req[r].pc = "idle"
    /\ req' = [req EXCEPT ![r] = discoverEnter([req[r] EXCEPT !.kind = "schema"])]
    /\ UNCHANGED <<schemaCache, schemaCacheTime, clock, ticks>>

\* POST /ask with a question (lines 434-442) up to the first await inside
\* discoverSchema.  One request of a behaviour runs the resolver; the other
\* one is a GET /schema or a POST /ask without a question.
PostAsk(r) ==
    /\ req[r].pc = "idle"
    /\ \A s \in Requests \ {r} : req[s].question = NoQuestion
    /\ \E q \in Questions :
         req' = [req EXCEPT ![r] =
                   discoverEnter([req[r] EXCEPT !.kind = "ask", !.question = q])]
    /\ UNCHANGED <<schemaCache, schemaCacheTime, clock, ticks>>

\* (faulty variant: the test of line 436 is left out and the pipeline starts)
PostAskNoQuestionUnvalidated(r) ==
    /\ req[r].pc = "idle"
    /\ req' = [req EXCEPT ![r] =
                 discoverEnter([req[r] EXCEPT !.kind = "ask", !.question = NoQuestion])]
    /\ UNCHANGED <<schemaCache, schemaCacheTime, clock, ticks>>

\* POST /ask without a question (lines 435-438): 400, nothing else runs
PostAskNoQuestion(r) ==
    /\ req[r].pc = "idle"
    /\ req' = [req EXCEPT ![r] =
                 [@ EXCEPT !.kind = "ask", !.question = NoQuestion,
                           !.status = 400, !.body = [error |-> "question is required"],
                           !.pc = "done"]]
    /\ UNCHANGED <<schemaCache, schemaCacheTime, clock, ticks>>

\* lines 35-45 answered: the label listing
LabelQueryOk(r) ==
    /\ req[r].pc = "d_labels"
    /\ \E records \in LabelResults :
         req' = [req EXCEPT ![r] =
                   discoverLoop([req[r] EXCEPT !.records = records, !.labels = <<>>,
                                               !.dQueried = TRUE], 1)]
    /\ UNCHANGED <<schemaCache, schemaCacheTime, clock, ticks>>

\* lines 55-61 answered: the sample of label records[li]
SampleQueryOk(r) ==
    /\ req[r].pc = "d_sample"
    /\ LET rec == req[r]
           record == rec.records[rec.li]
           info == labelInfo(record, propRecords(record.label, record.count))
       IN  req' = [req EXCEPT ![r] =
                     discoverLoop([rec EXCEPT !.labels = Append(@, info),
                                              !.dQueried = TRUE], rec.li + 1)]
    /\ UNCHANGED <<schemaCache, schemaCacheTime, clock, ticks>>

\* (faulty variant: the labels are merged into the snapshot already cached)
storedSnapshotMerged(rec, records) ==
    [labels |-> IF schemaCache # Null THEN schemaCache.labels \o rec.labels
                ELSE rec.labels,
     relationships |-> relationshipsOf(records)]

\* line 106: schemaCache = { labels: schema.labels, relationships: ... }
storedSnapshot(rec, records) ==
    [labels |-> rec.labels, relationships |-> relationshipsOf(records)]

\* (faulty variant: the time of the store in place of the time of entry)
storedTimeAtStore(rec) == clock

\* line 107: schemaCacheTime = now, the now of line 27
storedTime(rec) == rec.now

\* lines 85-109 answered: the relationship listing; the snapshot is stored
\* with the `now` read at entry and returned through the finally block
RelQueryOk(r) ==
    /\ req[r].pc = "d_rels"
    /\ \E records \in RelResults :
         LET snapshot == storedSnapshot(req[r], records)
         IN  /\ schemaCache' = snapshot
             /\ schemaCacheTime' = storedTime(req[r])
             /\ req' = [req EXCEPT ![r] =
                          [@ EXCEPT !.dRet = snapshot, !.dQueried = TRUE,
                                    !.pc = "d_close"]]
    /\ UNCHANGED <<clock, ticks>>

\* any of the three discovery queries raises (lines 110-120)
DiscoveryQueryFails(r) ==
    /\ req[r].pc \in {"d_labels", "d_sample", "d_rels"}
    /\ req' = [req EXCEPT ![r] = discoverCatch([req[r] EXCEPT !.dQueried = TRUE])]
    /\ schemaCache' = cacheAfterCatch(req[r])[1]
    /\ schemaCacheTime' = cacheAfterCatch(req[r])[2]
    /\ UNCHANGED <<clock, ticks>>

\* lines 121-123: session.close() answered; discoverSchema's locals go out of
\* scope and its promise resolves with dRet
DiscoverClose(r) ==
    /\ req[r].pc = "d_close"
    /\ req' = [req EXCEPT ![r] =
                 [@ EXCEPT !.dOpen = FALSE, !.now = 0, !.records = <<>>, !.li = 0,
                           !.labels = <<>>, !.retry = FALSE, !.pc = "d_returned"]]
    /\ UNCHANGED <<schemaCache, schemaCacheTime, clock, ticks>>

\* GET /schema resumes after discoverSchema (lines 491-492): 200 with the snapshot
SchemaRespond(r) ==
    /\ req[r].pc = "d_returned"
    /\ req[r].kind = "schema"
    /\ req' = [req EXCEPT ![r] =
                 [@ EXCEPT !.status = 200, !.body = req[r].dRet, !.dRet = Null,
                           !.pc = "done"]]
    /\ UNCHANGED <<schemaCache, schemaCacheTime, clock, ticks>>

\* ------------------------------------------------- the translator and run()
aiLimit0Cypher == "MATCH (n) RETURN n LIMIT 0"

aiListCypher ==
    "MATCH (n:IfcDoor) RETURN n.Name AS name, "
        \o "coalesce(n.GlobalId, '') AS globalId, n.nid AS nid"

\* What the translator can answer: no content at all, or a query text that
\* may come wrapped in a code fence.
Contents ==
    { Null,
      [fence |-> FALSE, text |-> aiLimit0Cypher],
      [fence |-> TRUE, text |-> aiListCypher] }

\* lines 226-227: the content or '', trimmed, with the fence markup removed
cleanCypher(content) == IF content = Null THEN "" ELSE content.text

\* Every exact label generateFallbackQueries can name (line 308)
ExactLabels ==
    UNION {{"Ifc" \o concepts[c].labels[i] : i \in 1..Len(concepts[c].labels)} :
             c \in 1..Len(concepts)}

CountTexts ==
    {flexCountCypher(concepts[c]) : c \in 1..Len(concepts)}
      \cup {exactCountCypher(l) : l \in ExactLabels}
      \cup {countAllCypher}

FlexListTexts == {flexListCypher(concepts[c]) : c \in 1..Len(concepts)}

\* The columns a query text returns, read off its RETURN clause.
columns(cypher) ==
    IF cypher \in CountTexts THEN <<"count">>
    ELSE IF cypher = ultimateCypher THEN <<"total_count">>
    ELSE IF cypher \in FlexListTexts \/ cypher = aiListCypher
         THEN <<"name", "globalId", "nid">>
    ELSE IF cypher = showLabelsCypher THEN <<"node_types", "count">>
    ELSE IF cypher = aiLimit0Cypher THEN <<"n">>
    ELSE <<"name", "globalId">>

\* How many rows a query text can return when it runs: an aggregate without
\* grouping returns one row, LIMIT 0 none, a listing any number up to MaxRows;
\* the empty text is rejected.
rowCounts(cypher) ==
    IF cypher = "" THEN {}
    ELSE IF cypher \in CountTexts \/ cypher = ultimateCypher THEN {1}
    ELSE IF cypher = aiLimit0Cypher THEN {0}
    ELSE 0..MaxRows

\* session.run(cypher) when it does not raise
runResults(cypher) == {[keys |-> columns(cypher), n |-> k] : k \in rowCounts(cypher)}

\* ------------------------------------------------------------- formatResult
contains(seq, x) == \E i \in 1..Len(seq) : seq[i] = x

\* key.toLowerCase().includes('count') on the column names that occur
countKey(key) == key \in {"count", "total_count"}

\* Which of the four renderings formatResult (lines 346-401) chooses
formatRule(result) ==
    IF result.n = 0 THEN "no_results"
    ELSE IF result.n = 1 /\ Len(result.keys) = 1
         THEN IF countKey(result.keys[1]) THEN "count" ELSE "scalar"
    ELSE IF contains(result.keys, "name") \/ contains(result.keys, "globalId")
         THEN "list"
    ELSE "table"

\* lines 371-373: record.get of a column the record does not have raises
formatThrows(result) ==
    /\ formatRule(result) = "list"
    /\ \E k \in {"name", "globalId", "nid"} : ~contains(result.keys, k)

\* ------------------------------------------------------- rows and cells
\* A cell value carries its JavaScript type: null, a number, a string, an
\* array, or a node with its property bag.
JsNull == [t |-> "null"]
Undefined == [t |-> "undefined"]
str(s) == [t |-> "string", v |-> s]
num(k) == [t |-> "number", v |-> k]
arr(items) == [t |-> "array", v |-> items]
node(props) == [t |-> "node", properties |-> props]

\* truthiness, as || and ?: and if test it
truthy(value) ==
    CASE value.t = "string" -> value.v # ""
      [] value.t = "number" -> value.v # 0
      [] value.t \in {"null", "undefined"} -> FALSE
      [] OTHER -> TRUE

\* a value inside a template literal
templateText(value) ==
    CASE value.t = "string" -> value.v
      [] value.t = "number" -> ToString(value.v)
      [] value.t = "array" -> join(value.v, ",")
      [] value.t = "node" -> "[object Object]"
      [] OTHER -> value.t

\* Record.get of the driver: the value of a column, and an error for a column
\* the record does not have
get(record, key) ==
    IF key \in DOMAIN record.fields THEN record.fields[key] ELSE Raise

\* obj.name of a property bag: undefined when the bag has no such property
prop(props, name) == IF name \in DOMAIN props THEN props[name] ELSE Undefined

\* Two identifiers of 22 characters, and a text of 22 characters that the
\* pattern of line 423 rejects for its blanks
GuidA == "1a2b3c4d5e6f7g8h9i0jkl"
GuidB == "2O2Fr$t4X7Zf8NOew3FLOH"
NotGuid == "a door on storey three"

\* What the database holds in row i under a column.  Every second node has
\* no GlobalId (the listing queries coalesce it to ''), every third no name.
cellOf(key, i) ==
    CASE key = "name" -> IF i % 3 = 0 THEN JsNull ELSE str("Door-" \o ToString(i))
      [] key = "globalId" -> IF i % 2 = 1 THEN str("") ELSE str(GuidA)
      [] key = "nid" -> IF i % 4 = 0 THEN JsNull ELSE num(i)
      [] key = "count" -> num(i + 1)
      [] key = "total_count" -> num(5)
      [] key = "total" -> str("five")
      [] key = "node_types" -> arr(<<"IfcDoor", "IfcElement">>)
      [] key = "n" -> IF i % 2 = 1 THEN node([GlobalId |-> str(GuidA), Name |-> str("Door")])
                      ELSE IF i % 4 = 2 THEN node([globalId |-> str(GuidB)])
                      ELSE node([Name |-> str("Door")])
      [] key = "tag" -> IF i % 3 = 1 THEN str(GuidA)
                        ELSE IF i % 3 = 2 THEN str(NotGuid) ELSE str(GuidB)
      [] OTHER -> JsNull

\* result.records of a result with the given columns and n rows
recordsOf(result) ==
    [i \in 1..result.n |->
        [keys |-> result.keys,
         fields |-> [k \in {result.keys[j] : j \in 1..Len(result.keys)} |-> cellOf(k, i)]]]

\* ------------------------------------------------ formatResult, the text
\* The text is a sequence of lines and a line a sequence of parts, so that
\* bullets and the suffix can be told apart.  The bullet character of line
\* 374 cannot stand in a TLA+ string and is written as an asterisk.
maxRows == 10
bullet == "* "

\* records.slice(0, maxRows)
displayRecords(records) == SubSeq(records, 1, Min(Len(records), maxRows))

\* lines 370-375: one bulleted item
item(record) ==
    LET name == IF truthy(get(record, "name"))
                THEN templateText(get(record, "name")) ELSE "Unnamed"
        globalId == IF truthy(get(record, "globalId"))
                    THEN templateText(get(record, "globalId")) ELSE ""
        nid == IF truthy(get(record, "nid"))
               THEN templateText(get(record, "nid")) ELSE ""
    IN  <<bullet, name>>
          \o (IF globalId # "" THEN <<" (ID: ", globalId, ")">>
              ELSE IF nid # "" THEN <<" (nid: ", nid, ")">>
              ELSE <<>>)

\* lines 386-397: the object made of one record
tableRow(record) ==
    [key \in DOMAIN record.fields |->
        LET value == record.fields[key]
        IN  IF value.t = "node" THEN value.properties
            ELSE IF value.t = "array" THEN str(join(value.v, ", "))
            ELSE value]

\* lines 378-380
moreLines(records) ==
    IF Len(records) > maxRows
    THEN << <<"... and ", ToString(Len(records) - maxRows), " more">> >>
    ELSE <<>>

\* formatResult (lines 346-401): the lines of the answer text, or Raise
formatResult(records) ==
    LET result == [keys |-> IF records = <<>> THEN <<>> ELSE records[1].keys,
                   n |-> Len(records)]
        rule == formatRule(result)
        shown == displayRecords(records)
    IN  CASE rule = "no_results" -> [lines |-> << <<"No results found.">> >>]
          [] rule = "count" ->
               [lines |-> << <<"Found ",
                               templateText(get(records[1], records[1].keys[1])),
                               " item(s).">> >>]
          [] rule = "scalar" ->
               [lines |-> << <<"Result: ",
                               templateText(get(records[1], records[1].keys[1]))>> >>]
          [] rule = "list" ->
               IF formatThrows(result) THEN Raise
               ELSE [lines |->
                        << <<"Found ", ToString(Len(records)), " result(s):">> >>
                          \o [i \in 1..Len(shown) |-> item(shown[i])]
                          \o moreLines(records)]
          [] OTHER ->
               [lines |->
                   << <<"Results (", ToString(Len(shown)), "/",
                        ToString(Len(records)), "):">>,
                      <<"JSON", [i \in 1..Len(shown) |-> tableRow(shown[i])]>> >>]

\* --------------------------------------------------------- extractGlobalIds
\* key.toLowerCase().includes('globalid') on the column names that occur
globalIdKey(key) == key \in {"globalId", "GlobalId"}

\* line 423: 22 characters out of digits, letters, _, $ and -
guidPattern(s) == Len(s) = 22 /\ s # NotGuid

\* line 412: a global-identifier column with a string in it
globalIdColumn(key, value) == globalIdKey(key) /\ value.t = "string"

\* lines 408-425: the values one cell passes to ids.add, in order
cellAdds(key, value) ==
    IF globalIdColumn(key, value) THEN <<value>>
    ELSE LET globalId == IF value.t = "node"
                         THEN IF truthy(prop(value.properties, "GlobalId"))
                              THEN prop(value.properties, "GlobalId")
                              ELSE prop(value.properties, "globalId")
                         ELSE Undefined
         IN  (IF truthy(globalId) THEN <<globalId>> ELSE <<>>)
               \o (IF value.t = "string" /\ guidPattern(value.v)
                   THEN <<value>> ELSE <<>>)

\* line 408: the loop over the columns of one record, from column k on
RECURSIVE keyLoop(_, _)
keyLoop(record, k) ==
    IF k > Len(record.keys) THEN <<>>
    ELSE cellAdds(record.keys[k], get(record, record.keys[k])) \o keyLoop(record, k + 1)

\* line 407: the loop over the records: every value passed to ids.add, in order
RECURSIVE recordLoop(_)
recordLoop(records) ==
    IF records = <<>> THEN <<>>
    ELSE keyLoop(Head(records), 1) \o recordLoop(Tail(records))

\* (faulty variant: an array in place of the Set)
arrayFromArray(adds) == adds

\* Array.from of the Set the values were added to: a Set keeps a value once,
\* at the place of its first add
arrayFromSet(adds) ==
    LET tagged == [p \in 1..Len(adds) |-> <<p, adds[p]>>]
        firstAdd(pair) == \A q \in 1..(pair[1] - 1) : adds[q] # pair[2]
        kept == SelectSeq(tagged, firstAdd)
    IN  [i \in 1..Len(kept) |-> kept[i][2]]

\* extractGlobalIds (lines 404-431)
extractGlobalIds(records) == arrayFromSet(recordLoop(records))

\* ------------------------------------------------------------- processQuery
\* lines 207-224: open the session, build the prompt, call the translator
resolverStart(rec) ==
    [rec EXCEPT !.qOpened = @ + 1, !.qOpen = TRUE, !.cypher = "", !.result = Null,
                !.attempts = <<>>, !.pc = "q_translate"]

\* line 234: the generated query is accepted only with at least one row
acceptGenerated(result) == result.n > 0

\* line 256: if (!result)
needUltimate(result) == result = Null

\* line 262 / 235: return { cypher, result, attempts }, through the finally
resolverReturn(rec) ==
    [rec EXCEPT !.ret = [cypher |-> rec.cypher, result |-> rec.result,
                         attempts |-> rec.attempts],
                !.pc = "q_close"]

\* An exception that nothing inside processQuery catches (line 217 or line
\* 258): the finally block of lines 264-266 closes the session, then the
\* promise rejects.
\* (faulty variant: the promise rejects without the finally block)
resolverThrowNoFinally(rec, why) == [rec EXCEPT !.err = why, !.pc = "q_returned"]

resolverThrow(rec, why) == [rec EXCEPT !.err = why, !.pc = "q_close"]

\* lines 255-262: after the loop
afterLoop(rec) ==
    IF needUltimate(rec.result)
    THEN [rec EXCEPT !.cypher = ultimateCypher, !.pc = "q_ultimate"]
    ELSE resolverReturn(rec)

\* (faulty variant: the candidate is run without being recorded in attempts)
fallbackLoopUnrecorded(rec, i) ==
    IF i <= Len(rec.fallbacks)
    THEN [rec EXCEPT !.fi = i, !.pc = "q_fallback"]
    ELSE afterLoop([rec EXCEPT !.fi = 0])

\* lines 244-247: the loop from candidate i on, to its next await
fallbackLoop(rec, i) ==
    IF i <= Len(rec.fallbacks)
    THEN [rec EXCEPT !.attempts = Append(@, [cypher |-> rec.fallbacks[i].cypher,
                                             source |-> rec.fallbacks[i].strategy]),
                     !.fi = i, !.pc = "q_fallback"]
    ELSE afterLoop([rec EXCEPT !.fi = 0])

\* line 249: break leaves the loop
\* (faulty variant: no break, the loop goes on to the next candidate)
afterFallbackOkNoBreak(rec) == fallbackLoop(rec, rec.fi + 1)

afterFallbackOk(rec) == afterLoop([rec EXCEPT !.fi = 0])

\* lines 250-252: a failed candidate is logged and the loop goes on
\* (faulty variant: the loop ends at the first failure)
afterFallbackFailsStop(rec) == afterLoop([rec EXCEPT !.fi = 0])

afterFallbackFails(rec) == fallbackLoop(rec, rec.fi + 1)

\* (faulty variant: the text of the candidate is not kept)
acceptFallbackKeepsText(rec, fallback, out) == [rec EXCEPT !.result = out]

\* lines 247-248: result = await session.run(...); cypher = fallback.cypher
acceptFallback(rec, fallback, out) ==
    [rec EXCEPT !.result = out, !.cypher = fallback.cypher]

ran(rec, cypher, source, out) ==
    [rec EXCEPT !.executed = Append(@, [cypher |-> cypher, source |-> source, out |-> out])]

\* POST /ask resumes after discoverSchema (lines 442-445) and enters processQuery
AskResume(r) ==
    /\ req[r].pc = "d_returned"
    /\ req[r].kind = "ask"
    /\ req' = [req EXCEPT ![r] =
                 resolverStart([req[r] EXCEPT !.schema = req[r].dRet, !.dRet = Null])]
    /\ UNCHANGED <<schemaCache, schemaCacheTime, clock, ticks>>

\* lines 217-233: the translator answers; the generated query is recorded and run
TranslatorOk(r) ==
    /\ req[r].pc = "q_translate"
    /\ \E content \in Contents :
         LET cypher == cleanCypher(content)
         IN  req' = [req EXCEPT ![r] =
                       [@ EXCEPT !.cypher = cypher,
                                 !.attempts = Append(@, [cypher |-> cypher, source |-> "AI"]),
                                 !.pc = "q_generated"]]
    /\ UNCHANGED <<schemaCache, schemaCacheTime, clock, ticks>>

\* line 217 raises: no catch encloses the call, only the finally of line 264
TranslatorFails(r) ==
    /\ req[r].pc = "q_translate"
    /\ req' = [req EXCEPT ![r] =
                 resolverThrow([req[r] EXCEPT !.tFailed = TRUE], "translator")]
    /\ UNCHANGED <<schemaCache, schemaCacheTime, clock, ticks>>

\* lines 233-247: the generated query ran
GeneratedQueryOk(r) ==
    /\ req[r].pc = "q_generated"
    /\ \E out \in runResults(req[r].cypher) :
         LET rec == ran([req[r] EXCEPT !.result = out], req[r].cypher, "AI", out)
         IN  req' = [req EXCEPT ![r] =
                       IF acceptGenerated(out) THEN resolverReturn(rec)
                       ELSE fallbackLoop(
                              [rec EXCEPT !.fallbacks =
                                  generateFallbackQueries(rec.question, rec.schema)], 1)]
    /\ UNCHANGED <<schemaCache, schemaCacheTime, clock, ticks>>

\* (faulty variant: a generated query that raised is run a second time)
GeneratedQueryFailsRetry(r) ==
    /\ req[r].pc = "q_generated"
    /\ LET rec == ran(req[r], req[r].cypher, "AI", Raise)
       IN  req' = [req EXCEPT ![r] =
                     IF Len(rec.executed) < 2 THEN rec
                     ELSE fallbackLoop(
                            [rec EXCEPT !.fallbacks =
                                generateFallbackQueries(rec.question, rec.schema)], 1)]
    /\ UNCHANGED <<schemaCache, schemaCacheTime, clock, ticks>>

\* lines 237-247: the generated query raised; result is still null
GeneratedQueryFails(r) ==
    /\ req[r].pc = "q_generated"
    /\ LET rec == ran(req[r], req[r].cypher, "AI", Raise)
       IN  req' = [req EXCEPT ![r] =
                     fallbackLoop(
                       [rec EXCEPT !.fallbacks =
                           generateFallbackQueries(rec.question, rec.schema)], 1)]
    /\ UNCHANGED <<schemaCache, schemaCacheTime, clock, ticks>>

\* lines 247-249: candidate fi ran
FallbackQueryOk(r) ==
    /\ req[r].pc = "q_fallback"
    /\ LET fallback == req[r].fallbacks[req[r].fi]
       IN  \E out \in runResults(fallback.cypher) :
             req' = [req EXCEPT ![r] =
                       afterFallbackOk(
                         ran(acceptFallback(req[r], fallback, out),
                             fallback.cypher, fallback.strategy, out))]
    /\ UNCHANGED <<schemaCache, schemaCacheTime, clock, ticks>>

\* lines 250-252: candidate fi raised
FallbackQueryFails(r) ==
    /\ req[r].pc = "q_fallback"
    /\ LET fallback == req[r].fallbacks[req[r].fi]
       IN  req' = [req EXCEPT ![r] =
                     afterFallbackFails(
                       ran(req[r], fallback.cypher, fallback.strategy, Raise))]
    /\ UNCHANGED <<schemaCache, schemaCacheTime, clock, ticks>>

\* lines 258-262: the ultimate fallback ran
UltimateQueryOk(r) ==
    /\ req[r].pc = "q_ultimate"
    /\ \E out \in runResults(req[r].cypher) :
         req' = [req EXCEPT ![r] =
                   resolverReturn(
                     ran([req[r] EXCEPT !.result = out,
                                        !.attempts = Append(@, [cypher |-> req[r].cypher,
                                                                source |-> "ultimate_fallback"])],
                         req[r].cypher, "ultimate_fallback", out))]
    /\ UNCHANGED <<schemaCache, schemaCacheTime, clock, ticks>>

\* line 258 raises: nothing catches it inside processQuery
UltimateQueryFails(r) ==
    /\ req[r].pc = "q_ultimate"
    /\ req' = [req EXCEPT ![r] =
                 resolverThrow(ran(req[r], req[r].cypher, "ultimate_fallback", Raise),
                               "ultimate")]
    /\ UNCHANGED <<schemaCache, schemaCacheTime, clock, ticks>>

\* lines 264-266: session.close() answered; processQuery's locals go out of
\* scope and its promise settles with ret or with the pending error
QueryClose(r) ==
    /\ req[r].pc = "q_close"
    /\ req' = [req EXCEPT ![r] =
                 [@ EXCEPT !.qOpen = FALSE, !.cypher = "", !.result = Null,
                           !.attempts = <<>>, !.fallbacks = <<>>, !.fi = 0,
                           !.pc = "q_returned"]]
    /\ UNCHANGED <<schemaCache, schemaCacheTime, clock, ticks>>

\* lines 445-473: the handler formats and answers, or answers 500
AskRespond(r) ==
    /\ req[r].pc = "q_returned"
    /\ req' = [req EXCEPT ![r] =
                 IF req[r].err # "none" \/ formatThrows(req[r].ret.result)
                 THEN [@ EXCEPT !.status = 500,
                                !.body = [error |-> "Failed to process query"],
                                !.schema = Null, !.ret = Null, !.executed = <<>>,
                                !.pc = "done"]
                 ELSE [@ EXCEPT !.status = 200,
                                !.body = [cypher |-> req[r].ret.cypher,
                                          answerText |->
                                              formatResult(recordsOf(req[r].ret.result)).lines,
                                          globalIds |->
                                              extractGlobalIds(recordsOf(req[r].ret.result))],
                                !.schema = Null, !.ret = Null, !.executed = <<>>,
                                !.pc = "done"]]
    /\ UNCHANGED <<schemaCache, schemaCacheTime, clock, ticks>>

Next ==
    \/ Tick
    \/ \E r \in Requests :
         \/ GetSchema(r)
         \/ PostAsk(r)
         \/ PostAskNoQuestion(r)
         \/ LabelQueryOk(r)
         \/ SampleQueryOk(r)
         \/ RelQueryOk(r)
         \/ DiscoveryQueryFails(r)
         \/ DiscoverClose(r)
         \/ SchemaRespond(r)
         \/ AskResume(r)
         \/ TranslatorOk(r)
         \/ TranslatorFails(r)
         \/ GeneratedQueryOk(r)
         \/ GeneratedQueryFails(r)
         \/ FallbackQueryOk(r)
         \/ FallbackQueryFails(r)
         \/ UltimateQueryOk(r)
         \/ UltimateQueryFails(r)
         \/ QueryClose(r)
         \/ AskRespond(r)

Spec == Init /\ [][Next]_vars

\* Every awaited call of a request settles: the translator answers or
\* raises, a query returns or raises, a session closes.  The step that
\* resumes the request after the await is therefore eventually taken.
Resume(r) ==
    \/ LabelQueryOk(r) \/ SampleQueryOk(r) \/ RelQueryOk(r) \/ DiscoveryQueryFails(r)
    \/ DiscoverClose(r) \/ SchemaRespond(r) \/ AskResume(r)
    \/ TranslatorOk(r) \/ TranslatorFails(r)
    \/ GeneratedQueryOk(r) \/ GeneratedQueryFails(r)
    \/ FallbackQueryOk(r) \/ FallbackQueryFails(r)
    \/ UltimateQueryOk(r) \/ UltimateQueryFails(r)
    \/ QueryClose(r) \/ AskRespond(r)

\* One request is followed to its end; the other one has been answered (a
\* POST /ask without a question).
InitOneRequest ==
    /\ schemaCache = Null
    /\ schemaCacheTime = 0
    /\ clock = CACHE_DURATION
    /\ ticks = 0
    /\ req = [r \in Requests |->
                IF r = 1 THEN InitReq
                ELSE [InitReq EXCEPT !.kind = "ask", !.status = 400,
                                     !.body = [error |-> "question is required"],
                                     !.pc = "done"]]

FairSpec ==
    InitOneRequest /\ [][Next]_vars /\ \A r \in Requests : WF_vars(Resume(r))

\* ----------------------------------- formatResult and extractGlobalIds alone
\* The two functions are applied to results of every column shape their rules
\* distinguish, with zero to MaxFormatRows rows.
RowShapes ==
    { <<"count">>, <<"total">>, <<"globalId">>, <<"n">>,
      <<"name", "globalId", "nid">>, <<"name", "globalId">>,
      <<"node_types", "count">>, <<"n", "globalId", "tag">>, <<"tag", "nid">> }

InitRows ==
    /\ schemaCache = Null
    /\ schemaCacheTime = 0
    /\ clock = CACHE_DURATION
    /\ ticks = 0
    /\ \E keys \in RowShapes, n \in 0..MaxFormatRows :
          req = [r \in Requests |->
                   IF r = 1
                   THEN [InitReq EXCEPT !.pc = "rows",
                                        !.records = recordsOf([keys |-> keys, n |-> n])]
                   ELSE InitReq]

\* line 448: const answerText = formatResult(result, question)
ApplyFormatResult(r) ==
    /\ req[r].pc = "rows"
    /\ req[r].body = Null
    /\ req' = [req EXCEPT ![r] =
                 [@ EXCEPT !.body = [answerText |-> formatResult(req[r].records)]]]
    /\ UNCHANGED <<schemaCache, schemaCacheTime, clock, ticks>>

\* line 449: const globalIds = extractGlobalIds(result.records), called up to
\* twice on the same rows; executed keeps what each call returned
ApplyExtractGlobalIds(r) ==
    /\ req[r].pc = "rows"
    /\ Len(req[r].executed) < 2
    /\ req' = [req EXCEPT ![r] =
                 [@ EXCEPT !.executed = Append(@, extractGlobalIds(req[r].records))]]
    /\ UNCHANGED <<schemaCache, schemaCacheTime, clock, ticks>>

NextRows ==
    \E r \in Requests :
        \/ ApplyFormatResult(r)
        \/ ApplyExtractGlobalIds(r)

SpecRows == InitRows /\ [][NextRows]_vars

\* ------------------------------------------- generateFallbackQueries alone
\* The function is applied to questions and snapshots of every shape its
\* branches distinguish: no concept, one, two; counting, listing, no intent;
\* snapshots with none, one or both of the exact labels of a concept.
QShowDoorsAndWalls == <<"S","h","o","w"," ","d","o","o","r","s"," ","a","n","d",
                        " ","w","a","l","l","s">>
QCountFloors == <<"c","o","u","n","t"," ","t","h","e"," ","f","l","o","o","r","s">>
QDoors == <<"D","O","O","R","S">>
QWhatIsThis == <<"W","h","a","t"," ","i","s"," ","t","h","i","s">>
FallbackQuestions ==
    Questions \cup {QShowDoorsAndWalls, QCountFloors, QDoors, QWhatIsThis}

\* a snapshot with one entry per label name, as discoverSchema builds it
snapshotOf(names) ==
    [labels |-> [i \in 1..Len(names) |->
                    [label |-> names[i], count |-> i,
                     properties |-> {"nid"}, samples |-> <<>>]],
     relationships |-> <<>>]

FallbackSnapshots ==
    {FallbackSchema, snapshotOf(<<>>), snapshotOf(<<"IfcDoor">>),
     snapshotOf(<<"IfcStorey", "IfcWall", "IfcSlab">>)}

InitFallbacks ==
    /\ schemaCache = Null
    /\ schemaCacheTime = 0
    /\ clock = CACHE_DURATION
    /\ ticks = 0
    /\ req \in [Requests ->
                  {[InitReq EXCEPT !.pc = "g_in", !.question = q, !.schema = s] :
                      q \in FallbackQuestions, s \in FallbackSnapshots}]

\* line 242: const fallbacks = generateFallbackQueries(question, schema)
ApplyGenerateFallbackQueries(r) ==
    /\ req[r].pc = "g_in"
    /\ req' = [req EXCEPT ![r] =
                 [@ EXCEPT !.fallbacks = generateFallbackQueries(req[r].question,
                                                                   req[r].schema),
                           !.pc = "g_out"]]
    /\ UNCHANGED <<schemaCache, schemaCacheTime, clock, ticks>>

NextFallbacks == \E r \in Requests : ApplyGenerateFallbackQueries(r)

SpecFallbacks == InitFallbacks /\ [][NextFallbacks]_vars

\* ------------------------------------------------------------- properties
\* processQuery has settled (returned or raised) and the handler has not
\* answered yet: ret, err and executed describe the whole resolution.
Settled(r) == req[r].pc = "q_returned"

Resolving(r) == req[r].pc \in {"q_translate", "q_generated", "q_fallback",
                               "q_ultimate", "q_close", "q_returned"}

\* the index of the last query that ran without raising, or 0
LastOk(executed) ==
    LET S == {i \in 1..Len(executed) : executed[i].out # Raise}
    IN  IF S = {} THEN 0 ELSE CHOOSE i \in S : \A j \in S : j <= i

\* the index of the first query that ran without raising, or 0
FirstOk(executed) ==
    LET S == {i \in 1..Len(executed) : executed[i].out # Raise}
    IN  IF S = {} THEN 0 ELSE CHOOSE i \in S : \A j \in S : i <= j

\* the generated query ran and was not accepted: it raised or had no row
GeneratedRejected(executed) ==
    /\ Len(executed) >= 1
    /\ executed[1].source = "AI"
    /\ (executed[1].out = Raise \/ executed[1].out.n = 0)

\* the executions of fallback candidates: all but the first, and but the
\* ultimate fallback
IsCandidateRun(executed, i) ==
    /\ i \in 2..Len(executed)
    /\ executed[i].source # "ultimate_fallback"

DoorCountTexts == {flexCountCypher(concepts[2]), exactCountCypher("IfcDoor")}

\* C1: when the translator call raises, processQuery recovers: it does not
\* settle with the translator's error, it has executed fallback candidates,
\* and for a question containing "how many doors" the first fallback that
\* succeeded is a counting query on a door-like label.
C1_TranslatorFailureRecovered ==
    \A r \in Requests :
        (req[r].tFailed /\ Settled(r)) =>
            /\ req[r].err # "translator"
            /\ \E i \in 1..Len(req[r].executed) : req[r].executed[i].source # "AI"
            /\ (/\ includes(toLowerCase(req[r].question), kwHowMany \o <<" ">> \o concepts[2].keywords[2])
                /\ req[r].err = "none")
               => LET k == FirstOk(req[r].executed)
                  IN  k # 0 /\ req[r].executed[k].cypher \in DoorCountTexts

\* C2: the result processQuery returns is never that of a generated query
\* that ran with zero rows: when the generated query is the last query that
\* succeeded, it returned at least one row.
C2_EmptyGeneratedNeverReturned ==
    \A r \in Requests :
        (Settled(r) /\ req[r].err = "none") =>
            LET k == LastOk(req[r].executed)
            IN  (k # 0 /\ req[r].executed[k].source = "AI")
                  => /\ req[r].executed[k].out.n > 0
                     /\ req[r].ret.result = req[r].executed[k].out

\* C3: when the generated query was not accepted and no fallback candidate
\* succeeded (all raised, or there was none), the ultimate fallback query is
\* the last query executed before processQuery settles, and a normal return
\* carries its text and its result.
C3_UltimateFallbackReached ==
    \A r \in Requests :
        (/\ Settled(r)
         /\ GeneratedRejected(req[r].executed)
         /\ \A i \in 2..Len(req[r].executed) :
               IsCandidateRun(req[r].executed, i) => req[r].executed[i].out = Raise)
        => LET e == req[r].executed
               last == e[Len(e)]
           IN  /\ last.source = "ultimate_fallback"
               /\ last.cypher = ultimateCypher
               /\ req[r].err = "none" =>
                    /\ req[r].ret.cypher = ultimateCypher
                    /\ req[r].ret.result = last.out

\* C4: the fallback candidates run in the order generateFallbackQueries gives
\* them, one at a time from the first; the first one that does not raise ends
\* the phase: nothing is executed after it, no query is in flight, and its
\* text and result (zero rows included) are what processQuery returns.
C4_FirstSuccessfulFallbackWins ==
    \A r \in Requests :
        Resolving(r) =>
            LET e == req[r].executed
                fbs == generateFallbackQueries(req[r].question, req[r].schema)
            IN  \A i \in 2..Len(e) :
                    IsCandidateRun(e, i) =>
                        /\ i - 1 <= Len(fbs)
                        /\ e[i].cypher = fbs[i - 1].cypher
                        /\ e[i].source = fbs[i - 1].strategy
                        /\ e[i].out # Raise =>
                              /\ i = Len(e)
                              /\ req[r].pc \in {"q_close", "q_returned"}
                              /\ req[r].err = "none"
                              /\ req[r].ret.cypher = e[i].cypher
                              /\ req[r].ret.result = e[i].out

C4_Witness ==
    \E r \in Requests :
        /\ Settled(r)
        /\ Len(req[r].executed) = 3
        /\ req[r].executed[2].out = Raise
        /\ req[r].executed[3].out # Raise
        /\ req[r].executed[3].out.n = 0
        /\ req[r].ret.result = req[r].executed[3].out
        /\ Len(generateFallbackQueries(req[r].question, req[r].schema)) = 3

Entered(r) == req[r].pc = "idle" /\ req'[r].pc \in {"d_labels", "d_returned"}

Discovering(r) == req[r].pc \in {"d_labels", "d_sample", "d_rels", "d_close"}

\* C6: a call of discoverSchema that finds a snapshot younger than
\* CACHE_DURATION returns that snapshot at once, opens no session, runs no
\* query and leaves schemaCache and schemaCacheTime as they are; a call that
\* finds no snapshot, or one of age CACHE_DURATION or more, opens a session and
\* starts a discovery.
C6_CacheWindow ==
    /\ [](\A r \in Requests : req[r].dHit => (~req[r].dQueried /\ req[r].dOpened = 0))
    /\ [][\A r \in Requests :
            Entered(r) =>
                IF schemaCache # Null /\ clock - schemaCacheTime < CACHE_DURATION
                THEN /\ req'[r].pc = "d_returned"
                     /\ req'[r].dRet = schemaCache
                     /\ req'[r].dOpened = 0
                     /\ ~req'[r].dOpen
                     /\ ~req'[r].dQueried
                     /\ UNCHANGED <<schemaCache, schemaCacheTime>>
                ELSE /\ req'[r].pc = "d_labels"
                     /\ req'[r].dOpened = 1
                     /\ req'[r].dOpen]_vars

C6_Witness ==
    \E r \in Requests :
        /\ req[r].dHit
        /\ req[r].pc = "d_returned"
        /\ req[r].dRet = schemaCache
        /\ clock - schemaCacheTime = TickLength

\* C7: the step in which a discovery fails leaves schemaCache and
\* schemaCacheTime unchanged, the hardcoded snapshot is never in the cache,
\* and a call that arrives after a failed discovery and finds the cache empty
\* or stale starts a discovery again.
C7_FailureNotCached ==
    /\ [](schemaCache # FallbackSchema)
    /\ [][\A r \in Requests :
            (~req[r].dFailed /\ req'[r].dFailed)
                => UNCHANGED <<schemaCache, schemaCacheTime>>]_vars
    /\ [][\A r \in Requests :
            (/\ Entered(r)
             /\ \E s \in Requests : req[s].dFailed /\ ~req[s].dOpen
             /\ (schemaCache = Null \/ clock - schemaCacheTime >= CACHE_DURATION))
                => (req'[r].pc = "d_labels" /\ req'[r].dOpened = 1)]_vars

C7_Witness ==
    \E r, s \in Requests :
        /\ req[r].dFailed
        /\ req[r].pc = "done"
        /\ req[s].retry
        /\ req[s].pc = "d_labels"
        /\ schemaCache = Null

\* C8: a discovery in which a query failed returns the hardcoded snapshot
\* (three labels, no relationship) whatever had been built before the
\* failure; GET /schema then answers 200 with it and POST /ask goes on into
\* processQuery with it.
C8_DiscoveryFailureRecovered ==
    \A r \in Requests :
        req[r].dFailed =>
            /\ req[r].pc \in {"d_close", "d_returned"} =>
                  /\ req[r].dRet = FallbackSchema
                  /\ Len(req[r].dRet.labels) = 3
                  /\ req[r].dRet.relationships = <<>>
            /\ (req[r].kind = "schema" /\ ~Discovering(r) /\ req[r].pc # "d_returned") =>
                  /\ req[r].pc = "done"
                  /\ req[r].status = 200
                  /\ req[r].body = FallbackSchema
            /\ (req[r].kind = "ask" /\ ~Discovering(r) /\ req[r].pc # "d_returned") =>
                  /\ req[r].qOpened = 1
                  /\ Resolving(r) => req[r].schema = FallbackSchema

C8_Witness ==
    \E r \in Requests :
        /\ req[r].dFailed
        /\ req[r].pc = "d_close"
        /\ Len(req[r].labels) > 0
        /\ req[r].dRet = FallbackSchema

\* C9: every snapshot discoverSchema returns has count > 0 for each of its
\* labels.
C9_ReturnedCountsPositive ==
    \A r \in Requests :
        req[r].pc = "d_returned" =>
            \A i \in 1..Len(req[r].dRet.labels) : req[r].dRet.labels[i].count > 0

\* C10: a request that runs the pipeline opens at most one session in
\* discoverSchema (none on a cache hit) and exactly one in processQuery; a
\* session is open only while its function is running, and none is open once
\* the function has returned or raised, or once the response is sent.
C10_SessionsScoped ==
    \A r \in Requests :
        /\ req[r].dOpened <= 1
        /\ req[r].qOpened <= 1
        /\ req[r].dHit => req[r].dOpened = 0
        /\ req[r].dOpen <=> Discovering(r)
        /\ req[r].qOpen <=> (Resolving(r) /\ req[r].pc # "q_returned")
        /\ (req[r].kind = "ask" /\ req[r].question # NoQuestion /\ (Resolving(r) \/ req[r].pc = "done"))
              => req[r].qOpened = 1
        /\ req[r].kind = "schema" => req[r].qOpened = 0
        /\ req[r].status # 0 => (~req[r].dOpen /\ ~req[r].qOpen)

C10_Witness ==
    \E r \in Requests :
        /\ req[r].pc = "done"
        /\ req[r].status = 500
        /\ req[r].err = "ultimate"
        /\ req[r].dOpened = 1
        /\ req[r].qOpened = 1
        /\ ~req[r].dOpen
        /\ ~req[r].qOpen

\* C11: POST /ask without a question is answered 400 in the step in which it
\* arrives and nothing of the pipeline runs for it: no session is opened, no
\* discovery starts, no query is executed, the translator is not called, and
\* the step leaves schemaCache and schemaCacheTime as they are.
C11_MissingQuestionRejected ==
    /\ [](\A r \in Requests :
            (req[r].kind = "ask" /\ req[r].question = NoQuestion) =>
                /\ req[r].pc = "done"
                /\ req[r].status = 400
                /\ req[r].dOpened = 0 /\ req[r].qOpened = 0
                /\ ~req[r].dOpen /\ ~req[r].qOpen
                /\ ~req[r].dQueried /\ ~req[r].dHit /\ ~req[r].dFailed
                /\ req[r].dRet = Null /\ req[r].schema = Null
                /\ ~req[r].tFailed
                /\ req[r].attempts = <<>> /\ req[r].executed = <<>>
                /\ req[r].ret = Null)
    /\ [][\A r \in Requests :
            (req[r].pc = "idle" /\ req'[r].kind = "ask" /\ req'[r].question = NoQuestion)
                => UNCHANGED <<schemaCache, schemaCacheTime>>]_vars

C11_Witness ==
    \E r, s \in Requests :
        /\ req[r].status = 400
        /\ req[r].question = NoQuestion
        /\ req[s].pc = "done"
        /\ req[s].status = 200
        /\ schemaCache # Null

GenericStrategies == {"count_all_elements", "show_labels"}

\* the concepts one of whose keywords occurs in the lowercased question
matchingConcepts(lowerQuestion) ==
    {c \in 1..Len(concepts) :
        \E k \in 1..Len(concepts[c].keywords) :
            includes(lowerQuestion, concepts[c].keywords[k])}

FlexTextsOf(c) == {flexCountCypher(concepts[c]), flexListCypher(concepts[c])}

ExactTextsOf(c) ==
    UNION {{exactCountCypher("Ifc" \o concepts[c].labels[i]),
            exactListCypher("Ifc" \o concepts[c].labels[i])} :
              i \in 1..Len(concepts[c].labels)}

\* C12: in the list generateFallbackQueries returns, no generic candidate
\* (count_all_elements, show_labels) is followed by a concept-specific one;
\* every exact-label candidate comes after the flexible candidate; every
\* concept-specific candidate belongs to the first concept of the fixed list
\* one of whose keywords occurs in the question; and for a listing question
\* whose concept is the door concept, with IfcDoor in the snapshot, the first
\* entry is the flexible listing query and a later one is the exact-label
\* listing query of IfcDoor.
C12_FallbackOrder ==
    \A r \in Requests :
        req[r].pc = "g_out" =>
            LET fbs == req[r].fallbacks
                lq == toLowerCase(req[r].question)
                M == matchingConcepts(lq)
                first == CHOOSE c \in M : \A d \in M : c <= d
                AllFlex == UNION {FlexTextsOf(c) : c \in 1..Len(concepts)}
                AllExact == UNION {ExactTextsOf(c) : c \in 1..Len(concepts)}
            IN  /\ \A i, j \in 1..Len(fbs) :
                      (i < j /\ fbs[i].strategy \in GenericStrategies)
                          => fbs[j].strategy \in GenericStrategies
                /\ \A i, j \in 1..Len(fbs) :
                      (fbs[i].cypher \in AllExact /\ fbs[j].cypher \in AllFlex) => j < i
                /\ \A i \in 1..Len(fbs) :
                      fbs[i].strategy \notin GenericStrategies =>
                          /\ M # {}
                          /\ fbs[i].cypher \in FlexTextsOf(first) \cup ExactTextsOf(first)
                /\ (/\ listIntent(lq) /\ ~countIntent(lq)
                    /\ M # {} /\ first = 2
                    /\ hasLabel(req[r].schema, "IfcDoor"))
                   => /\ Len(fbs) >= 2
                      /\ fbs[1].cypher = flexListCypher(concepts[2])
                      /\ \E j \in 2..Len(fbs) : fbs[j].cypher = exactListCypher("IfcDoor")

C12_Witness ==
    \E r, s \in Requests :
        /\ req[r].pc = "g_out"
        /\ req[r].question = QListDoors
        /\ Len(req[r].fallbacks) = 3
        /\ req[r].fallbacks[2].strategy = "exact_list_IfcDoor"
        /\ req[s].pc = "g_out"
        /\ req[s].question = QShowDoorsAndWalls
        /\ req[s].fallbacks[1].strategy = "list_wall"
        /\ Len(req[s].fallbacks) = 3

\* the bulleted lines of an answer text
bulletLines(lines) == {i \in 1..Len(lines) : lines[i][1] = bullet}

\* C13: formatResult applies its rules in priority order: zero rows give the
\* fixed no-results message; exactly one row with exactly one column gives
\* the count sentence or the labeled scalar; otherwise a result with a name
\* or globalId column is rendered as a bulleted list, and any other result
\* as the generic dump.  The list of n rows has exactly min(n, 10) bulleted
\* entries and ends with "and N more" if and only if n > 10, N being n - 10.
C13_FormatRulesInOrder ==
    \A r \in Requests :
        (req[r].pc = "rows" /\ req[r].body # Null) =>
            LET records == req[r].records
                n == Len(records)
                keys == records[1].keys
                out == req[r].body.answerText
                lines == out.lines
                last == lines[Len(lines)]
            IN  IF n = 0 THEN out = [lines |-> << <<"No results found.">> >>]
                ELSE IF n = 1 /\ Len(keys) = 1
                THEN /\ out # Raise
                     /\ Len(lines) = 1
                     /\ IF countKey(keys[1])
                        THEN lines[1][1] = "Found " /\ lines[1][3] = " item(s)."
                        ELSE lines[1][1] = "Result: "
                ELSE IF contains(keys, "name") \/ contains(keys, "globalId")
                THEN /\ out # Raise
                     /\ lines[1] = <<"Found ", ToString(n), " result(s):">>
                     /\ Cardinality(bulletLines(lines)) = Min(n, 10)
                     /\ \A i \in 2..(1 + Min(n, 10)) : i \in bulletLines(lines)
                     /\ IF n > 10
                        THEN /\ Len(lines) = 12
                             /\ last = <<"... and ", ToString(n - 10), " more">>
                        ELSE Len(lines) = 1 + n
                ELSE /\ out # Raise
                     /\ lines[1][1] = "Results ("

\* the values the three rules of extractGlobalIds collect from the rows
collected(records) ==
    UNION {UNION {
        LET key == records[i].keys[k]
            value == records[i].fields[key]
        IN  (IF globalIdKey(key) /\ value.t = "string" THEN {value} ELSE {})
            \cup (IF value.t = "node"
                  THEN {prop(value.properties, p) : p \in {"GlobalId", "globalId"}}
                          \ {Undefined}
                  ELSE {})
            \cup (IF value.t = "string" /\ Len(value.v) = 22 /\ value.v # NotGuid
                  THEN {value} ELSE {})
        : k \in 1..Len(records[i].keys)} : i \in 1..Len(records)}

C20_IdentifiersNonEmpty ==
    \A r \in Requests :
        (req[r].kind = "ask" /\ req[r].status = 200) =>
            \A i \in 1..Len(req[r].body.globalIds) :
                /\ req[r].body.globalIds[i].t = "string"
                /\ req[r].body.globalIds[i].v # ""

\* request r completes a discovery without failure in this step
Completes(r) ==
    /\ req[r].pc = "d_rels"
    /\ req'[r].pc = "d_close"
    /\ ~req'[r].dFailed

\* the label records of a listing that pass the count test, in order
RECURSIVE keptLabels(_)
keptLabels(records) ==
    IF records = <<>> THEN <<>>
    ELSE (IF Head(records).count > 0 THEN <<Head(records).label>> ELSE <<>>)
           \o keptLabels(Tail(records))

\* C15: the cache is empty or holds one whole snapshot of one discovery that
\* completed without failure, together with that discovery's timestamp:
\* schemaCache and schemaCacheTime change only in the step in which a
\* discovery completes, and every such step stores the snapshot that this
\* discovery built from its own label listing (every label that passed the
\* count test, in order) and returns, with the time this discovery read at
\* entry; so after overlapping discoveries the cache holds the snapshot of
\* the one that completed last.  The hardcoded snapshot is never stored.
C15_CacheHoldsOneDiscovery ==
    /\ [](schemaCache # FallbackSchema)
    /\ []((schemaCache = Null) <=> (schemaCacheTime = 0))
    /\ [][(schemaCache' # schemaCache \/ schemaCacheTime' # schemaCacheTime)
            => \E r \in Requests : Completes(r)]_vars
    /\ [][\A r \in Requests :
            Completes(r) =>
                /\ schemaCache' = req'[r].dRet
                /\ schemaCacheTime' = req[r].now
                /\ schemaCache'.labels = req[r].labels
                /\ [i \in 1..Len(schemaCache'.labels) |-> schemaCache'.labels[i].label]
                      = keptLabels(req[r].records)
                /\ \E records \in RelResults :
                      schemaCache'.relationships = relationshipsOf(records)]_vars

C15_Witness ==
    \E r, s \in Requests :
        /\ ticks = 0
        /\ req[r].pc = "d_close" /\ ~req[r].dFailed
        /\ req[s].pc = "d_returned" /\ ~req[s].dFailed /\ ~req[s].dHit
        /\ req[s].dRet # req[r].dRet
        /\ schemaCache = req[r].dRet

\* C19 as stated: schemaCacheTime never decreases.
C19_TimestampNeverDecreases == [][schemaCacheTime' >= schemaCacheTime]_vars

\* C19, amended: schemaCacheTime is always the entry time of the discovery
\* that stored the cache last and never exceeds the clock: every change of it
\* is the store of a completing discovery and sets it to the time that
\* discovery read at entry, so it decreases exactly when the completing
\* discovery entered before the time in the cache.
C19_TimestampOfLastWriter ==
    /\ [](schemaCacheTime <= clock)
    /\ [][\A r \in Requests : Completes(r) => schemaCacheTime' = req[r].now]_vars
    /\ [][schemaCacheTime' # schemaCacheTime => \E r \in Requests : Completes(r)]_vars
    /\ [][\A r \in Requests :
            Completes(r) =>
                ((schemaCacheTime' < schemaCacheTime) <=> (req[r].now < schemaCacheTime))]_vars

C19_Witness ==
    \E r, s \in Requests :
        /\ req[r].pc = "d_close" /\ ~req[r].dFailed
        /\ req[s].pc = "d_close" /\ ~req[s].dFailed
        /\ req[r].now < req[s].now
        /\ schemaCacheTime = req[r].now
        /\ schemaCache = req[r].dRet

\* C16: the attempts list processQuery returns has one entry per query that
\* was executed, in the order of execution, the generated query first; and
\* while processQuery runs an entry once written is neither changed nor
\* removed.
C16_AttemptsMatchExecutions ==
    /\ [](\A r \in Requests :
            (Settled(r) /\ req[r].err = "none") =>
                LET a == req[r].ret.attempts
                    e == req[r].executed
                IN  /\ Len(a) = Len(e)
                    /\ Len(a) >= 1
                    /\ a[1].source = "AI"
                    /\ \A i \in 1..Len(a) :
                          a[i].cypher = e[i].cypher /\ a[i].source = e[i].source)
    /\ [][\A r \in Requests :
            (Resolving(r) /\ req[r].pc \notin {"q_close", "q_returned"}) =>
                LET a == req[r].attempts
                    b == IF req'[r].pc = "q_close" /\ req'[r].err = "none"
                         THEN req'[r].ret.attempts ELSE req'[r].attempts
                IN  Len(a) <= Len(b) /\ \A i \in 1..Len(a) : b[i] = a[i]]_vars

C16_Witness ==
    \E r \in Requests :
        /\ Settled(r)
        /\ req[r].err = "none"
        /\ Len(req[r].ret.attempts) = 5
        /\ req[r].ret.attempts[5].source = "ultimate_fallback"
        /\ req[r].executed[5].out # Raise

\* C17: a resolution that has started settles, and it never executes the
\* generated query, one fallback candidate or the ultimate fallback a second
\* time: the executions are the generated query, then candidates in list
\* order, then at most one ultimate fallback, at most 1 + the number of
\* candidates + 1 in all.
C17_ResolutionTerminates ==
    /\ [](\A r \in Requests :
            Resolving(r) =>
                LET e == req[r].executed
                    fbs == generateFallbackQueries(req[r].question, req[r].schema)
                IN  /\ Len(e) <= 1 + Len(fbs) + 1
                    /\ \A i, j \in 1..Len(e) : e[i].source = e[j].source => i = j
                    /\ \A i \in 1..Len(e) :
                          /\ e[i].source = "AI" <=> i = 1
                          /\ e[i].source = "ultimate_fallback" =>
                                (i = Len(e) /\ req[r].pc \in {"q_close", "q_returned"})
                          /\ IsCandidateRun(e, i) =>
                                (i - 1 <= Len(fbs) /\ e[i].cypher = fbs[i - 1].cypher))
    /\ \A r \in Requests : (req[r].pc = "q_translate") ~> Settled(r)

C17_Witness ==
    \E r \in Requests :
        /\ Settled(r)
        /\ Len(req[r].executed) = 5
        /\ Len(generateFallbackQueries(req[r].question, req[r].schema)) = 3
        /\ req[r].executed[5].source = "ultimate_fallback"

\* C18: on every path on which processQuery returns, the cypher it returns
\* is the text of the query whose successful execution produced the result
\* it returns: the last query that ran without raising.
C18_ReturnedTextMatchesResult ==
    \A r \in Requests :
        (Settled(r) /\ req[r].err = "none") =>
            LET k == LastOk(req[r].executed)
            IN  /\ k # 0
                /\ req[r].ret.cypher = req[r].executed[k].cypher
                /\ req[r].ret.result = req[r].executed[k].out

C18_Witness ==
    \E r \in Requests :
        /\ Settled(r)
        /\ req[r].err = "none"
        /\ Len(req[r].executed) = 3
        /\ req[r].executed[1].out # Raise
        /\ req[r].executed[2].out = Raise
        /\ req[r].executed[3].out # Raise
        /\ req[r].ret.cypher = req[r].executed[3].cypher
        /\ req[r].ret.cypher # req[r].executed[1].cypher

====
